---- MODULE Spec2Model ----
(***************************************************************************)
(* A model of the mkv-slide-show crate: the Encoder state machine          *)
(* (encoder.rs), the buffer it shares with its element writer              *)
(* (paged_vec.rs) and the driver assemble_file (main.rs).                  *)
(*                                                                         *)
(* Numbers.  Rust's f32 seconds are modelled as exact fixed-point numbers  *)
(* counted in "units": UnitsPerTick units make one Matroska tick (1 ms at  *)
(* TIMESCALE = 1,000,000 ns), so a value of u units is u / UnitsPerSecond  *)
(* seconds.  Every duration the model draws is at least a tenth of a tick  *)
(* away from a rounding boundary or sits exactly on a value f32 rounds the *)
(* same way, so f32's relative error of 6e-8 cannot change a rounded       *)
(* result.  A float element value (Duration) is kept as a numerator over   *)
(* a stated denominator.                                                   *)
(*                                                                         *)
(* Bytes.  Every byte is an integer 0..255.  The element writer is the     *)
(* webm_iterable crate's WebmWriter, which is not part of the repository;  *)
(* it is modelled by what the repository relies on (paged_vec.rs, lines    *)
(* 7-11: the writer keeps "internal state for the begin of open tags"):    *)
(* children of an open master element collect in the writer's working      *)
(* buffer, the master's id and size are put in front of them when it is    *)
(* closed, and the working buffer is handed to the destination whenever    *)
(* no master element is open.                                              *)
(***************************************************************************)
EXTENDS Integers, Sequences, FiniteSets, TLC

VARIABLES
    slides,        \* Encoder.slides: the seconds of every slide
    fs,            \* the files the slides' paths name (image and audio)
    video,         \* Encoder.video: VideoTrack
    audio,         \* Encoder.audio: AudioTrack
    big_endian,    \* whether the host is big-endian
    progress,      \* Encoder.progress
    passed_time,   \* Encoder.state.passed_time (units)
    vec,           \* the Vec<u8> behind Shared: PagedVec.inner
    writer,        \* PagedVec.writer: open_tags and working_buffer
    emitted,       \* history: every element handed to the writer, in order
    appended,      \* history: every byte Shared::write appended, in order
    consumed,      \* history: every byte consume removed, in order
    result,        \* what the last step() returned
    successes,     \* history: the number of step() calls that returned Ok(Ok(()))
    failures,      \* history: the number of step() calls that returned an error
    touched,       \* history: an input file changed since the last step()
    built,         \* history: Encoder::new was called
    created,       \* history: the destination file was created
    pc,            \* assemble_file: the driver's position
    file,          \* assemble_file: the bytes written to the destination
    length,        \* assemble_file: the local `length`
    outcome,       \* assemble_file: what it returned
    exited         \* main: the exit code and what was printed to stdout

vars == <<slides, fs, video, audio, big_endian, progress, passed_time, vec,
          writer, emitted, appended, consumed, result, successes,
          failures, touched, built, created, pc, file, length, outcome, exited>>

(***************************************************************************)
(* Bounds of the model.                                                    *)
(***************************************************************************)
MaxSlides == 2
UnitsPerTick == 5
MaxIdleSteps == 1
MaxFailures == 2
MaxBytes == 5
MaxSamples == 6

(***************************************************************************)
(* Program constants.                                                      *)
(***************************************************************************)
TIMESCALE == 1000000
NanosPerSecond == 1000000000
TRACK_VIDEO == 1
TRACK_AUDIO == 2
chunk_len_ms == 33
BlockId == 161

TicksPerSecond == NanosPerSecond \div TIMESCALE
UnitsPerSecond == TicksPerSecond * UnitsPerTick

\* f64::round on a non-negative quotient num / den: to nearest, halves up.
Round(num, den) == (2 * num + den) \div (2 * den)

\* `as u64` on a non-negative quotient num / den: truncation.
Trunc(num, den) == num \div den

Min(a, b) == IF a < b THEN a ELSE b

(***************************************************************************)
(* Bytes.                                                                  *)
(***************************************************************************)
RECURSIVE BE(_, _)
\* The n big-endian bytes of v (to_be_bytes).
BE(v, n) == IF n = 0 THEN <<>> ELSE Append(BE(v \div 256, n - 1), v % 256)

RECURSIVE ByteLen(_)
\* The number of bytes v needs, at least one.
ByteLen(v) == IF v < 256 THEN 1 ELSE 1 + ByteLen(v \div 256)

\* An element id: its big-endian bytes without the leading zeros.
IdBytes(id) == BE(id, ByteLen(id))

\* An element size as an EBML variable-length integer.
Vint(n) ==
    IF n < 127 THEN <<128 + n>>
    ELSE IF n < 16383 THEN <<64 + (n \div 256), n % 256>>
    ELSE IF n < 2097151 THEN <<32 + (n \div 65536), (n \div 256) % 256, n % 256>>
    ELSE <<16 + (n \div 16777216), (n \div 65536) % 256, (n \div 256) % 256, n % 256>>

\* An unsigned integer payload: 1, 2, 4 or 8 bytes, the smallest that holds it.
UIntBytes(v) ==
    IF v < 256 THEN BE(v, 1)
    ELSE IF v < 65536 THEN BE(v, 2)
    ELSE BE(v, 4)

\* A float payload: 8 bytes standing for the f64's bits, one value one pattern.
FloatBytes(num, den) == BE(num, 4) \o BE(den, 4)

TagId(t) ==
    CASE t = "Ebml" -> 440786851
      [] t = "EbmlVersion" -> 17030
      [] t = "EbmlReadVersion" -> 17143
      [] t = "EbmlMaxIdLength" -> 17138
      [] t = "EbmlMaxSizeLength" -> 17139
      [] t = "EbmlDocType" -> 17026
      [] t = "EbmlDocTypeVersion" -> 17031
      [] t = "EbmlDocTypeReadVersion" -> 17029
      [] t = "Segment" -> 408125543
      [] t = "Info" -> 357149030
      [] t = "TimecodeScale" -> 2807729
      [] t = "MuxingApp" -> 19840
      [] t = "WritingApp" -> 22337
      [] t = "Duration" -> 17545
      [] t = "Tracks" -> 374648427
      [] t = "TrackEntry" -> 174
      [] t = "TrackNumber" -> 215
      [] t = "TrackUid" -> 29637
      [] t = "TrackType" -> 131
      [] t = "FlagEnabled" -> 185
      [] t = "FlagDefault" -> 136
      [] t = "FlagForced" -> 21930
      [] t = "FlagLacing" -> 156
      [] t = "CodecId" -> 134
      [] t = "CodecDecodeAll" -> 170
      [] t = "SeekPreRoll" -> 22203
      [] t = "DefaultDuration" -> 2352003
      [] t = "Video" -> 224
      [] t = "FlagInterlaced" -> 154
      [] t = "PixelWidth" -> 176
      [] t = "PixelHeight" -> 186
      [] t = "ColourSpace" -> 3061028
      [] t = "Color" -> 21936
      [] t = "BitsPerChannel" -> 21938
      [] t = "TransferCharacteristics" -> 21946
      [] t = "Primaries" -> 21947
      [] t = "Audio" -> 225
      [] t = "SamplingFrequency" -> 181
      [] t = "Channels" -> 159
      [] t = "BitDepth" -> 25188
      [] t = "Cues" -> 475249515
      [] t = "Cluster" -> 524531317
      [] t = "Timecode" -> 231
      [] t = "BlockGroup" -> 160
      [] t = "Block" -> BlockId
      [] t = "BlockDuration" -> 155

(***************************************************************************)
(* Elements handed to the writer.  kind is "start" or "end" (a master      *)
(* element), "uint", "float" (num / den), "utf8" or "binary" (data), or    *)
(* "raw" (write_raw: data under the id given).  depth is filled in by the  *)
(* writer's history: the number of master elements open around it.         *)
(***************************************************************************)
MasterStart(t) == [tag |-> t, kind |-> "start", depth |-> 0, num |-> 0, den |-> 1, data |-> <<>>]
MasterEnd(t) == [tag |-> t, kind |-> "end", depth |-> 0, num |-> 0, den |-> 1, data |-> <<>>]
UInt(t, v) == [tag |-> t, kind |-> "uint", depth |-> 0, num |-> v, den |-> 1, data |-> <<>>]
Float(t, n, d) == [tag |-> t, kind |-> "float", depth |-> 0, num |-> n, den |-> d, data |-> <<>>]
Utf8(t, s) == [tag |-> t, kind |-> "utf8", depth |-> 0, num |-> 0, den |-> 1, data |-> s]
Binary(t, s) == [tag |-> t, kind |-> "binary", depth |-> 0, num |-> 0, den |-> 1, data |-> s]
Raw(t, s) == [tag |-> t, kind |-> "raw", depth |-> 0, num |-> 0, den |-> 1, data |-> s]

Payload(el) ==
    CASE el.kind = "uint" -> UIntBytes(el.num)
      [] el.kind = "float" -> FloatBytes(el.num, el.den)
      [] OTHER -> el.data

(***************************************************************************)
(* The buffer and its writer.  An encoder value e is the record of the     *)
(* fields a step can change: progress, passed_time, vec, writer, and the   *)
(* histories emitted and appended.                                         *)
(***************************************************************************)

\* A faulty variant: the bytes are put in front of the buffer.
SharedWriteFront(e, bytes) ==
    [e EXCEPT !.vec = bytes \o @, !.appended = @ \o bytes]

\* impl Write for Shared: extend_from_slice.
SharedWrite(e, bytes) ==
    [e EXCEPT !.vec = @ \o bytes, !.appended = @ \o bytes]

\* The writer hands its working buffer over when no master element is open.
private_flush(e) ==
    IF e.writer.open_tags = <<>>
    THEN SharedWrite([e EXCEPT !.writer.working_buffer = <<>>],
                     e.writer.working_buffer)
    ELSE e

start_tag(e, id) ==
    [e EXCEPT !.writer.open_tags =
        Append(@, [id |-> id, pos |-> Len(e.writer.working_buffer)])]

\* Closing a master element puts its id and size in front of its children.
end_tag(e, id) ==
    LET tags == e.writer.open_tags
        buf == e.writer.working_buffer
    IN  IF tags = <<>> THEN e
        ELSE LET open == tags[Len(tags)]
                 popped == [e EXCEPT !.writer.open_tags = SubSeq(tags, 1, Len(tags) - 1)]
             IN  IF open.id # id THEN popped
                 ELSE [popped EXCEPT !.writer.working_buffer =
                          SubSeq(buf, 1, open.pos)
                          \o IdBytes(id) \o Vint(Len(buf) - open.pos)
                          \o SubSeq(buf, open.pos + 1, Len(buf))]

\* WebmWriter::write and write_raw: one element, then the flush.
write(e, el) ==
    LET open == Len(e.writer.open_tags)
        depth == IF el.kind = "end" /\ open > 0 THEN open - 1 ELSE open
        logged == [e EXCEPT !.emitted = Append(@, [el EXCEPT !.depth = depth])]
        id == TagId(el.tag)
        done ==
            CASE el.kind = "start" -> start_tag(logged, id)
              [] el.kind = "end" -> end_tag(logged, id)
              [] OTHER ->
                    [logged EXCEPT !.writer.working_buffer =
                        @ \o IdBytes(id) \o Vint(Len(Payload(el))) \o Payload(el)]
    IN  private_flush(done)

\* TLC evaluates an operator's argument where it is used, not where it is
\* passed.  A run of writes asks for each result before it goes on, so that the
\* run is evaluated one write at a time.
Evaluated(e) == Len(e.emitted) >= 0

RECURSIVE write_all(_, _)
\* A run of consecutive writer().write(..) statements.
write_all(e, els) ==
    IF els = <<>> THEN e
    ELSE LET next == write(e, Head(els))
         IN  IF Evaluated(next) THEN write_all(next, Tail(els)) ELSE next

(***************************************************************************)
(* Values.                                                                 *)
(***************************************************************************)
Initial == [kind |-> "Initial", frame |-> 0]
BeforeFrame(i) == [kind |-> "BeforeFrame", frame |-> i]
Done == [kind |-> "Done", frame |-> 0]

\* Result<Result<(), Error>, io::Error>: Ok(Ok(())), Ok(Err(kind)), Err(io).
\* A panic is no return value: it ends the process.
Ok == [chan |-> "ok", kind |-> "ok"]
Domain(k) == [chan |-> "domain", kind |-> k]
Fatal(k) == [chan |-> "fatal", kind |-> k]
Panic(k) == [chan |-> "panic", kind |-> k]

\* Option<f32>::None, the duration encode_frame passes.
NoDuration == 0 - 1

\* 0.1 seconds, the literal of step().
TenthSecond == UnitsPerSecond \div 10

\* The strings the encoder writes, as their UTF-8 bytes.
DocTypeWebm == <<119, 101, 98, 109>>
APP_NAME == <<86, 70, 80, 45, 67, 111, 114, 101, 45, 49, 46, 48, 46, 48>>
CodecUncompressed == <<86, 95, 85, 78, 67, 79, 77, 80, 82, 69, 83, 83, 69, 68>>
CodecPcmBig == <<65, 95, 80, 67, 77, 47, 73, 78, 84, 47, 66, 73, 71>>
CodecPcmLit == <<65, 95, 80, 67, 77, 47, 73, 78, 84, 47, 76, 73, 84>>
ColourRgba == <<82, 71, 66, 65>>

RECURSIVE Reverse(_)
Reverse(s) == IF s = <<>> THEN <<>> ELSE Append(Reverse(Tail(s)), Head(s))

RECURSIVE FromBE(_)
\* u32::from_be_bytes.
FromBE(b) == IF b = <<>> THEN 0 ELSE 256 * FromBE(SubSeq(b, 1, Len(b) - 1)) + b[Len(b)]

\* to_ne_bytes and from_ne_bytes: the host's byte order.
to_ne_bytes(v, n) == IF big_endian THEN BE(v, n) ELSE Reverse(BE(v, n))
from_ne_bytes(b) == IF big_endian THEN FromBE(b) ELSE FromBE(Reverse(b))

RECURSIVE Flatten(_)
Flatten(ss) == IF ss = <<>> THEN <<>> ELSE Head(ss) \o Flatten(Tail(ss))

(***************************************************************************)
(* Encoder: the header.                                                    *)
(***************************************************************************)
RECURSIVE total_seconds(_)
\* slides.iter().fold(0.0, |ts, slide| ts + slide.seconds)
total_seconds(ss) ==
    IF ss = <<>> THEN 0
    ELSE total_seconds(SubSeq(ss, 1, Len(ss) - 1)) + ss[Len(ss)].seconds

\* A faulty variant: the total rounded to whole ticks before it is written.
duration_rounded(total) ==
    Float("Duration", Round(total * TicksPerSecond, UnitsPerSecond), 1)

\* The Duration element: f64::from(total) * 1e9 / TIMESCALE, a float, as written.
duration_element(total) == Float("Duration", total * TicksPerSecond, UnitsPerSecond)

encode_info(e) ==
    write_all(e, <<
        MasterStart("Ebml"),
        UInt("EbmlVersion", 1),
        UInt("EbmlReadVersion", 1),
        UInt("EbmlMaxIdLength", 4),
        UInt("EbmlMaxSizeLength", 8),
        Utf8("EbmlDocType", DocTypeWebm),
        UInt("EbmlDocTypeVersion", 4),
        UInt("EbmlDocTypeReadVersion", 2),
        MasterEnd("Ebml"),
        MasterStart("Segment"),
        MasterStart("Info"),
        UInt("TimecodeScale", TIMESCALE),
        Utf8("MuxingApp", APP_NAME),
        Utf8("WritingApp", APP_NAME),
        duration_element(total_seconds(slides)),
        MasterEnd("Info") >>)

\* DefaultHasher over the track number: a 64-bit value nothing else depends on.
mk_track_uid(id) == 1000003 * id

\* VideoTrack::encode
video_encode(e) ==
    write_all(e, <<
        MasterStart("Video"),
        UInt("FlagInterlaced", 2),
        UInt("PixelWidth", video.width),
        UInt("PixelHeight", video.height),
        Binary("ColourSpace", ColourRgba),
        MasterStart("Color"),
        UInt("BitsPerChannel", 8),
        UInt("TransferCharacteristics", 13),
        UInt("Primaries", 1),
        MasterEnd("Color"),
        MasterEnd("Video") >>)

\* AudioTrack::encode
audio_encode(e) ==
    write_all(e, <<
        MasterStart("Audio"),
        Float("SamplingFrequency", audio.sampling_frequency, 1),
        UInt("Channels", audio.channels),
        UInt("BitDepth", audio.bits_per_sample),
        MasterEnd("Audio") >>)

\* AudioTrack::pcm_format: 1u16.to_be_bytes() == 1u16.to_ne_bytes()
pcm_format == IF BE(1, 2) = to_ne_bytes(1, 2) THEN CodecPcmBig ELSE CodecPcmLit

video_track_entry(e) ==
    LET head == write_all(e, <<
            MasterStart("TrackEntry"),
            UInt("TrackNumber", TRACK_VIDEO),
            UInt("TrackUid", mk_track_uid(TRACK_VIDEO)),
            UInt("TrackType", 1),
            UInt("FlagEnabled", 1),
            UInt("FlagDefault", 1),
            UInt("FlagForced", 0),
            UInt("FlagLacing", 0),
            Utf8("CodecId", CodecUncompressed),
            UInt("CodecDecodeAll", 0),
            UInt("SeekPreRoll", 0),
            UInt("DefaultDuration", NanosPerSecond) >>)
    IN  write(video_encode(head), MasterEnd("TrackEntry"))

audio_track_entry(e) ==
    LET head == write_all(e, <<
            MasterStart("TrackEntry"),
            UInt("TrackNumber", TRACK_AUDIO),
            UInt("TrackUid", mk_track_uid(TRACK_AUDIO)),
            UInt("TrackType", 2),
            UInt("FlagEnabled", 1),
            UInt("FlagDefault", 1),
            UInt("FlagForced", 0),
            UInt("FlagLacing", 0),
            Utf8("CodecId", pcm_format),
            UInt("CodecDecodeAll", 0),
            UInt("SeekPreRoll", 0),
            UInt("DefaultDuration", NanosPerSecond) >>)
    IN  write(audio_encode(head), MasterEnd("TrackEntry"))

\* A faulty variant: the audio entry left out.
encode_tracks_video_only(e) ==
    write(video_track_entry(write(e, MasterStart("Tracks"))), MasterEnd("Tracks"))

encode_tracks(e) ==
    write(audio_track_entry(video_track_entry(write(e, MasterStart("Tracks")))),
          MasterEnd("Tracks"))

\* FIXME in the source: nothing is written.
encode_chapters(e) == e

\* A faulty variant: Cues is not closed.
encode_cluster_end_open_cues(e) ==
    write_all(e, << MasterStart("Cues"), MasterEnd("Segment") >>)

\* A faulty variant: the Segment closed without Cues.
encode_cluster_end_no_cues(e) == write(e, MasterEnd("Segment"))

encode_cluster_end(e) ==
    write_all(e, << MasterStart("Cues"), MasterEnd("Cues"), MasterEnd("Segment") >>)

(***************************************************************************)
(* Encoder: blocks, frames and audio.                                      *)
(***************************************************************************)
time_as_timecode_f64(secs) == Round(secs * TicksPerSecond, UnitsPerSecond)

time_as_timecode(secs) == time_as_timecode_f64(secs)

\* A faulty variant: the track number without its marker bit.
TrackByteBare(num) == num % 256

\* (num | 0x80) as u8
TrackByte(num) == IF num % 256 >= 128 THEN num % 256 ELSE (num % 256) + 128

\* The assert! of build_block.
build_block_accepts(num) == num < 128

build_block(num, ts, data) ==
    <<TrackByte(num)>> \o BE(ts % 65536, 2) \o <<0>> \o data

\* DynamicImage::to_rgba8().as_bytes(): four bytes a pixel.
rgba8_bytes(image) == [k \in 1..(image.width * image.height * 4) |-> image.px]

build_frame_block(num, ts, image) == build_block(num, ts, rgba8_bytes(image))

build_pcm_block(num, ts, data) == build_block(num, ts, data)

\* ImageReader::open(..)? and image.decode(), then the dimension check.
image_failure(image) ==
    CASE image.status = "missing" -> Fatal("image_open")
      [] image.status = "io" -> Fatal("image_io")
      [] image.status = "corrupt" -> Domain("Image")
      [] <<image.width, image.height>> # <<video.width, video.height>> ->
            Domain("MismatchingDimensions")
      [] OTHER -> Ok

encode_frame_with_duration(e, idx, duration) ==
    LET frame == slides[idx + 1]
        image == fs[idx + 1].image
        failure == image_failure(image)
    IN  IF failure # Ok THEN [e |-> e, res |-> failure]
        ELSE IF ~build_block_accepts(TRACK_VIDEO)
        THEN [e |-> e, res |-> Panic("track_number")]
        ELSE LET data == build_frame_block(TRACK_VIDEO, 0, image)
                 ts == time_as_timecode(e.passed_time)
                 dur == time_as_timecode(
                            IF duration = NoDuration THEN frame.seconds ELSE duration)
             IN  [e |-> write_all(e, <<
                            MasterStart("Cluster"),
                            UInt("Timecode", ts),
                            MasterStart("BlockGroup"),
                            Raw("Block", data),
                            UInt("BlockDuration", dur),
                            MasterEnd("BlockGroup"),
                            MasterEnd("Cluster") >>),
                  res |-> Ok]

\* A faulty variant: every wav error taken for an I/O error.
convert_wav_all_fatal(status) == IF status = "ok" THEN Ok ELSE Fatal("wav_io")

\* main.rs convert_wav_result, on what wav::read returned.
convert_wav_result(status) ==
    CASE status = "ok" -> Ok
      [] status = "other" -> Domain("Wav")
      [] OTHER -> Fatal("wav_io")

\* The bytes of one sample as pcm_chunk leaves them in memory.
sample_bytes(depth, v) ==
    CASE depth = 8 -> <<v>>
      [] depth = 16 -> to_ne_bytes(v, 2)
      [] OTHER -> to_ne_bytes(from_ne_bytes(to_ne_bytes(v, 4)), 4)

RECURSIVE chunks_drop_short(_, _)
\* A faulty variant: a last chunk shorter than count is left out.
chunks_drop_short(data, count) ==
    IF Len(data) < count THEN <<>>
    ELSE <<SubSeq(data, 1, count)>>
         \o chunks_drop_short(SubSeq(data, count + 1, Len(data)), count)

RECURSIVE chunks(_, _)
\* slice::chunks(count), count > 0.
chunks(data, count) ==
    IF data = <<>> THEN <<>>
    ELSE <<SubSeq(data, 1, Min(count, Len(data)))>>
         \o chunks(SubSeq(data, Min(count, Len(data)) + 1, Len(data)), count)

\* AudioTrack::pcm_chunk: the PcmSlice values, in order.
pcm_chunk(wav) ==
    LET count == audio.sampling_frequency \div chunk_len_ms
        parts == chunks(wav.samples, count)
    IN  [k \in 1..Len(parts) |->
            [offset |-> Trunc(((k - 1) * count) * TicksPerSecond,
                              audio.sampling_frequency),
             data |-> Flatten([j \in 1..Len(parts[k]) |->
                                 sample_bytes(wav.depth, parts[k][j])])]]

\* What stops pcm_chunk: unimplemented!() and the panic of chunks(0).
pcm_chunk_panic(wav) ==
    IF wav.depth = 24 THEN Panic("unimplemented")
    ELSE IF audio.sampling_frequency \div chunk_len_ms = 0 THEN Panic("chunk_size_zero")
    ELSE Ok

RECURSIVE audio_clusters(_, _)
\* The body of the for loop of encode_audio_chunks.
audio_clusters(e, pcms) ==
    IF pcms = <<>> THEN e
    ELSE LET pcm == Head(pcms)
             data == build_pcm_block(TRACK_AUDIO, 0, pcm.data)
             ts == time_as_timecode(e.passed_time) + pcm.offset
             next == write_all(e, <<
                         MasterStart("Cluster"),
                         UInt("Timecode", ts),
                         MasterStart("BlockGroup"),
                         Raw("Block", data),
                         MasterEnd("BlockGroup"),
                         MasterEnd("Cluster") >>)
         IN  IF Evaluated(next) THEN audio_clusters(next, Tail(pcms)) ELSE next

encode_audio_chunks(e, idx) ==
    LET wav == fs[idx + 1].audio
    IN  IF wav.status = "missing" THEN [e |-> e, res |-> Fatal("audio_open")]
        ELSE IF convert_wav_result(wav.status) # Ok
        THEN [e |-> e, res |-> convert_wav_result(wav.status)]
        ELSE IF pcm_chunk_panic(wav) # Ok THEN [e |-> e, res |-> pcm_chunk_panic(wav)]
        ELSE IF pcm_chunk(wav) # <<>> /\ ~build_block_accepts(TRACK_AUDIO)
        THEN [e |-> e, res |-> Panic("track_number")]
        ELSE [e |-> audio_clusters(e, pcm_chunk(wav)), res |-> Ok]

(***************************************************************************)
(* Encoder::step.                                                          *)
(***************************************************************************)
RECURSIVE sub_blocks(_, _, _, _)
\* The `while { .. passed + 0.1 < seconds } {}` loop of step().
sub_blocks(e, frame, seconds, passed) ==
    LET len == Min(seconds - passed, UnitsPerSecond)
        r == encode_frame_with_duration(e, frame, len)
    IN  IF r.res # Ok THEN r
        ELSE LET e2 == [r.e EXCEPT !.passed_time = @ + len]
                 passed2 == passed + len
             IN  IF Evaluated(e2) /\ passed2 + TenthSecond < seconds
                 THEN sub_blocks(e2, frame, seconds, passed2)
                 ELSE [e |-> e2, res |-> Ok]

\* A faulty variant: the cursor moves past the last slide.
last_frame_goes_on(e, frame) ==
    [e |-> [e EXCEPT !.progress = BeforeFrame(frame + 1)], res |-> Ok]

\* A faulty variant: the last slide's frame is not written again.
last_frame_no_repeat(e, frame) ==
    [e |-> [encode_cluster_end(e) EXCEPT !.progress = Done], res |-> Ok]

\* A faulty variant: the cursor wraps around instead of finishing.
last_frame_restarts(e, frame) ==
    [e |-> [encode_cluster_end(e) EXCEPT !.progress = BeforeFrame(0)], res |-> Ok]

\* The last slide: the repeated frame, Cues, the end of the Segment.
last_frame(e, frame) ==
    LET z == encode_frame_with_duration(e, frame, 0)
    IN  IF z.res.chan = "fatal" THEN z
        ELSE [e |-> [encode_cluster_end(z.e) EXCEPT !.progress = Done], res |-> Ok]

\* A faulty variant: a failing frame leaves passed_time at the end of the slide.
step_frame_keeps_time(e, frame) ==
    LET seconds == slides[frame + 1].seconds
        pastframe == e.passed_time + seconds
        a == encode_audio_chunks(e, frame)
    IN  IF a.res # Ok THEN a
        ELSE LET v == sub_blocks(a.e, frame, seconds, 0)
                 e3 == [v.e EXCEPT !.passed_time = pastframe + TenthSecond]
             IN  IF v.res # Ok THEN [e |-> e3, res |-> v.res]
                 ELSE IF frame + 1 = Len(slides) THEN last_frame(e3, frame)
                 ELSE [e |-> [e3 EXCEPT !.progress = BeforeFrame(frame + 1)],
                       res |-> Ok]

\* A faulty variant: the frame's blocks are written in front of the audio.
step_frame_video_first(e, frame) ==
    LET seconds == slides[frame + 1].seconds
        pastframe == e.passed_time + seconds
        v == sub_blocks(e, frame, seconds, 0)
    IN  IF v.res # Ok THEN v
        ELSE LET a == encode_audio_chunks([v.e EXCEPT !.passed_time = e.passed_time],
                                          frame)
             IN  IF a.res # Ok THEN a
                 ELSE LET e3 == [a.e EXCEPT !.passed_time = pastframe + TenthSecond]
                      IN  IF frame + 1 = Len(slides)
                          THEN last_frame(e3, frame)
                          ELSE [e |-> [e3 EXCEPT !.progress = BeforeFrame(frame + 1)],
                                res |-> Ok]

step_frame(e, frame) ==
    LET seconds == slides[frame + 1].seconds
        pastframe == e.passed_time + seconds
        a == encode_audio_chunks(e, frame)
    IN  IF a.res # Ok THEN a
        ELSE LET v == sub_blocks(a.e, frame, seconds, 0)
             IN  IF v.res # Ok THEN v
                 ELSE LET e3 == [v.e EXCEPT !.passed_time = pastframe + TenthSecond]
                          next_frame == frame + 1
                      IN  IF next_frame = Len(slides)
                          THEN last_frame(e3, frame)
                          ELSE [e |-> [e3 EXCEPT !.progress = BeforeFrame(next_frame)],
                                res |-> Ok]

\* A faulty variant: a step() after Done encodes the audio of the last slide again.
step_again_when_done(e) ==
    CASE e.progress.kind = "Done" -> encode_audio_chunks(e, Len(slides) - 1)
      [] e.progress.kind = "Initial" ->
            [e |-> [encode_chapters(encode_tracks(encode_info(e)))
                        EXCEPT !.progress = BeforeFrame(0)],
             res |-> Ok]
      [] OTHER -> step_frame(e, e.progress.frame)

step(e) ==
    CASE e.progress.kind = "Done" -> [e |-> e, res |-> Ok]
      [] e.progress.kind = "Initial" ->
            [e |-> [encode_chapters(encode_tracks(encode_info(e)))
                        EXCEPT !.progress = BeforeFrame(0)],
             res |-> Ok]
      [] OTHER ->
            IF e.progress.frame < Len(slides)
            THEN step_frame(e, e.progress.frame)
            ELSE [e |-> e, res |-> Panic("index_out_of_bounds")]

\* A faulty variant: done as soon as the header is written.
done_early(e) == e.progress.kind # "Initial"

\* Encoder::done
done(e) == e.progress.kind = "Done"

\* PagedVec::ready, Encoder::ready and Encoder::tail: the whole Vec.
ready(e) == e.vec

tail(e) == ready(e)

\* PagedVec::consume: splice(..len, empty), which panics past the end.
consume_accepts(e, len) == len <= Len(e.vec)

\* A faulty variant: the last of the len bytes is left in the buffer.
consume_but_one(e, len) == [e EXCEPT !.vec = SubSeq(@, IF len = 0 THEN 1 ELSE len, Len(@))]

\* A faulty variant: everything is removed, whatever len is.
consume_all(e, len) == [e EXCEPT !.vec = <<>>]

\* A faulty variant: nothing is removed.
consume_nothing(e, len) == e

\* A faulty variant: the bytes are removed from the end.
consume_back(e, len) == [e EXCEPT !.vec = SubSeq(@, 1, Len(@) - len)]

consume(e, len) == [e EXCEPT !.vec = SubSeq(@, len + 1, Len(@))]

(***************************************************************************)
(* Inputs.  A slide is its seconds; the files its paths name are in fs.    *)
(* An image file is missing, unreadable ("io"), undecodable ("corrupt") or *)
(* decodes to width x height pixels of value px.  An audio file is         *)
(* missing, or wav::read fails on it with an I/O error ("io") or with an   *)
(* error of kind Other ("other"), or it decodes to samples of a bit depth. *)
(***************************************************************************)
Durations == {2, UnitsPerSecond + UnitsPerSecond \div 20, (5 * UnitsPerSecond) \div 2}

GoodImage == [status |-> "ok", width |-> 1, height |-> 1, px |-> 7]
WrongSizeImage == [status |-> "ok", width |-> 2, height |-> 1, px |-> 9]
BadImage(st) == [status |-> st, width |-> 0, height |-> 0, px |-> 0]
Images == {GoodImage, WrongSizeImage} \cup {BadImage(st) : st \in {"missing", "io", "corrupt"}}

Wav(st, depth, samples) ==
    [status |-> st, rate |-> 66, channels |-> 1, depth |-> depth, samples |-> samples]
GoodAudio == Wav("ok", 16, <<258, 772, 1286>>)
Audios ==
    {GoodAudio, Wav("ok", 8, <<17, 18, 19, 20, 21>>), Wav("ok", 32, <<16909060>>), Wav("ok", 24, <<1>>)}
    \cup {Wav(st, 0, <<>>) : st \in {"missing", "io", "other"}}

GoodFiles == [image |-> GoodImage, audio |-> GoodAudio]
FilePairs ==
    {[image |-> i, audio |-> GoodAudio] : i \in Images}
    \cup {[image |-> GoodImage, audio |-> a] : a \in Audios}

\* Lists of n slides' files, at most one of them other than GoodFiles.
FileLists(n) ==
    {f \in [1..n -> FilePairs] : Cardinality({i \in 1..n : f[i] # GoodFiles}) <= 1}

SlideLists(n) == [1..n -> [seconds : Durations]]

\* A slide's files make its step fail as they are.
Faulty(pair) ==
    \/ image_failure(pair.image) # Ok
    \/ pair.audio.status # "ok"
    \/ pcm_chunk_panic(pair.audio) # Ok

(***************************************************************************)
(* The state.                                                              *)
(***************************************************************************)
NoResult == [chan |-> "none", kind |-> "none"]

\* PagedVec::new and WebmWriter::new
NewWriter == [open_tags |-> <<>>, working_buffer |-> <<>>]

\* The encoder value of the current state.
Enc ==
    [progress |-> progress, passed_time |-> passed_time, vec |-> vec,
     writer |-> writer, emitted |-> emitted, appended |-> appended]

\* Encoder::new, with the histories empty.
NewEncoder ==
    /\ progress = Initial
    /\ passed_time = 0
    /\ vec = <<>>
    /\ writer = NewWriter
    /\ emitted = <<>>
    /\ appended = <<>>
    /\ consumed = <<>>
    /\ result = NoResult
    /\ successes = 0
    /\ failures = 0
    /\ touched = FALSE

\* The process has not exited.
NoExit == [code |-> 0 - 1, printed |-> "none", length |-> 0]

\* A faulty variant: a domain error is printed, and the process exits with 0.
main_exit_domain_zero(res, len, stdout_ok) ==
    CASE res.chan = "panic" -> [code |-> 101, printed |-> "none", length |-> 0]
      [] res.chan = "fatal" -> [code |-> 2, printed |-> "none", length |-> 0]
      [] ~stdout_ok -> [code |-> 2, printed |-> "none", length |-> 0]
      [] res.chan = "domain" -> [code |-> 0, printed |-> "error", length |-> 0]
      [] OTHER -> [code |-> 0, printed |-> "ok", length |-> len]

\* main and main_with_stdio on what assemble_file returned: the exit code and
\* the CallResult printed.  A failing write to stdout is an io::Error as well.
main_exit(res, len, stdout_ok) ==
    CASE res.chan = "panic" -> [code |-> 101, printed |-> "none", length |-> 0]
      [] res.chan = "fatal" -> [code |-> 2, printed |-> "none", length |-> 0]
      [] ~stdout_ok -> [code |-> 2, printed |-> "none", length |-> 0]
      [] res.chan = "domain" -> [code |-> 1, printed |-> "error", length |-> 0]
      [] OTHER -> [code |-> 0, printed |-> "ok", length |-> len]

\* What assemble_file returns: a step's result, or Ok(Ok(FileResult { length })).
Outcome(res, len) == [chan |-> res.chan, kind |-> res.kind, length |-> len]

NoDriver(at) ==
    /\ pc = at
    /\ file = <<>>
    /\ length = 0
    /\ outcome = Outcome(NoResult, 0)
    /\ exited = NoExit
    /\ created = FALSE

\* An Encoder over 1..MaxSlides slides, used through its public methods.
Init ==
    /\ \E n \in 1..MaxSlides :
          /\ slides \in SlideLists(n)
          /\ fs \in FileLists(n)
    /\ video = [width |-> 1, height |-> 1]
    /\ audio = [sampling_frequency |-> 66, channels |-> 1, bits_per_sample |-> 16]
    /\ big_endian \in BOOLEAN
    /\ built = TRUE
    /\ NewEncoder
    /\ NoDriver("none")

SetEncoder(e) ==
    /\ progress' = e.progress
    /\ passed_time' = e.passed_time
    /\ vec' = e.vec
    /\ writer' = e.writer
    /\ emitted' = e.emitted
    /\ appended' = e.appended

\* A panic ended the process.
Alive == result.chan # "panic"

\* One call of step(), with the histories it feeds.
CallStep ==
    \E r \in {step(Enc)} :
        /\ SetEncoder(r.e)
        /\ result' = r.res
        /\ successes' = IF r.res = Ok THEN successes + 1 ELSE successes
        /\ failures' = IF r.res = Ok THEN failures ELSE failures + 1
        /\ touched' = FALSE

\* The caller may go on calling step(): the model stops counting idle calls
\* after MaxIdleSteps of them and failed calls after MaxFailures.
MayStep ==
    /\ Alive
    /\ failures < MaxFailures
    /\ successes < Len(slides) + 1 + MaxIdleSteps

Step ==
    /\ MayStep
    /\ CallStep
    /\ UNCHANGED <<slides, fs, video, audio, big_endian, consumed, built, created,
                   pc, file, length, outcome, exited>>

\* One call of consume(len).
CallConsume(len) ==
    /\ SetEncoder(consume(Enc, len))
    /\ consumed' = consumed \o SubSeq(vec, 1, len)

\* consume(0), and consume of everything ready() shows.
Consume ==
    /\ Alive
    /\ \E len \in {0, Len(ready(Enc))} : CallConsume(len)
    /\ UNCHANGED <<slides, fs, video, audio, big_endian, result, successes,
                   failures, touched, built, created, pc, file, length, outcome, exited>>

\* The environment replaces the files of a slide that made its step fail.
Repair ==
    /\ Alive
    /\ \E i \in 1..Len(fs) :
          /\ Faulty(fs[i])
          /\ fs' = [fs EXCEPT ![i] = GoodFiles]
    /\ touched' = TRUE
    /\ UNCHANGED <<slides, video, audio, big_endian, progress, passed_time, vec,
                   writer, emitted, appended, consumed, result, successes,
                   failures, built, created, pc, file, length, outcome, exited>>

\* The files of a slide that are no longer there.
MissingFiles == [image |-> BadImage("missing"), audio |-> Wav("missing", 0, <<>>)]

\* The environment removes the input files once the encoder is done with them.
Remove ==
    /\ Alive
    /\ done(Enc)
    /\ \E i \in 1..Len(fs) : fs[i] # MissingFiles
    /\ fs' = [i \in 1..Len(fs) |-> MissingFiles]
    /\ touched' = TRUE
    /\ UNCHANGED <<slides, video, audio, big_endian, progress, passed_time, vec,
                   writer, emitted, appended, consumed, result, successes,
                   failures, built, created, pc, file, length, outcome, exited>>

Next == Step \/ Consume \/ Repair \/ Remove

Spec == Init /\ [][Next]_vars

(***************************************************************************)
(* The PagedVec on its own: bytes written through its writer's sink and    *)
(* taken off by consume.                                                   *)
(***************************************************************************)
\* The values of the bytes written.
Bytes == {0, 255}

\* PagedVec::new: no slides and no Encoder are involved.
BufferInit ==
    /\ slides = <<>>
    /\ fs = <<>>
    /\ video = [width |-> 0, height |-> 0]
    /\ audio = [sampling_frequency |-> 0, channels |-> 0, bits_per_sample |-> 0]
    /\ big_endian = FALSE
    /\ built = FALSE
    /\ NewEncoder
    /\ NoDriver("none")

\* Shared::write of one byte, up to MaxBytes of them.
BufferWrite ==
    /\ Len(appended) < MaxBytes
    /\ \E b \in Bytes : SetEncoder(SharedWrite(Enc, <<b>>))
    /\ UNCHANGED <<slides, fs, video, audio, big_endian, consumed, result, successes,
                   failures, touched, built, created, pc, file, length, outcome, exited>>

\* PagedVec::consume(len) for every len it accepts.
BufferConsume ==
    /\ \E len \in 0..Len(ready(Enc)) :
          /\ consume_accepts(Enc, len)
          /\ CallConsume(len)
    /\ UNCHANGED <<slides, fs, video, audio, big_endian, result, successes,
                   failures, touched, built, created, pc, file, length, outcome, exited>>

BufferNext == BufferWrite \/ BufferConsume

BufferSpec == BufferInit /\ [][BufferNext]_vars

(***************************************************************************)
(* Consume schedules: step() over good files, with consume(len) of         *)
(* nothing, of half and of all of what ready() shows at any point.         *)
(***************************************************************************)
ScheduleInit ==
    /\ \E n \in 1..MaxSlides :
          /\ slides \in SlideLists(n)
          /\ fs = [i \in 1..n |-> GoodFiles]
    /\ video = [width |-> 1, height |-> 1]
    /\ audio = [sampling_frequency |-> 66, channels |-> 1, bits_per_sample |-> 16]
    /\ big_endian = FALSE
    /\ built = TRUE
    /\ NewEncoder
    /\ NoDriver("none")

ConsumePart ==
    /\ \E len \in {0, Len(ready(Enc)) \div 2, Len(ready(Enc))} :
          /\ consume_accepts(Enc, len)
          /\ CallConsume(len)
    /\ UNCHANGED <<slides, fs, video, audio, big_endian, result, successes,
                   failures, touched, built, created, pc, file, length, outcome, exited>>

ScheduleNext == Step \/ ConsumePart

ScheduleSpec == ScheduleInit /\ [][ScheduleNext]_vars

(***************************************************************************)
(* The audio chunker alone: encode_audio_chunks of a new Encoder, over     *)
(* sampling frequencies and decoded buffers of up to MaxSamples samples.   *)
(***************************************************************************)
Rates == {20, 33, 65, 66, 100}

ChunkWavs ==
    {Wav("ok", depth, [j \in 1..m |-> base + j]) :
        depth \in {8, 16, 32}, m \in 0..MaxSamples, base \in {0, 100}}

ChunkInit ==
    /\ slides = <<[seconds |-> UnitsPerSecond]>>
    /\ \E w \in ChunkWavs : fs = <<[image |-> GoodImage, audio |-> w]>>
    /\ video = [width |-> 1, height |-> 1]
    /\ \E r \in Rates :
          audio = [sampling_frequency |-> r, channels |-> 1, bits_per_sample |-> 16]
    /\ big_endian \in BOOLEAN
    /\ built = TRUE
    /\ NewEncoder
    /\ NoDriver("none")

\* One call of encode_audio_chunks for the one slide.
Chunk ==
    /\ result = NoResult
    /\ \E r \in {encode_audio_chunks(Enc, 0)} :
          /\ SetEncoder(r.e)
          /\ result' = r.res
    /\ UNCHANGED <<slides, fs, video, audio, big_endian, consumed, successes,
                   failures, touched, built, created, pc, file, length, outcome,
                   exited>>

ChunkNext == Chunk

ChunkSpec == ChunkInit /\ [][ChunkNext]_vars

(***************************************************************************)
(* The driver: main.rs assemble_file.                                      *)
(***************************************************************************)

\* basic_show_data: the first slide's image header and wav header.
basic_show_data(pair) ==
    CASE pair.image.status = "missing" -> Fatal("image_open")
      [] pair.image.status = "io" -> Fatal("image_io")
      [] pair.image.status = "corrupt" -> Domain("Image")
      [] pair.audio.status = "missing" -> Fatal("audio_open")
      [] convert_wav_result(pair.audio.status) # Ok -> convert_wav_result(pair.audio.status)
      [] OTHER -> Ok

\* The SlideShow basic_show_data derives.
show_video(pair) == [width |-> pair.image.width, height |-> pair.image.height]

show_audio(pair) ==
    [sampling_frequency |-> pair.audio.rate,
     channels |-> pair.audio.channels,
     bits_per_sample |-> pair.audio.depth]

\* Before Encoder::new there is no encoder: its fields hold nothing.
NoShow ==
    /\ video = [width |-> 0, height |-> 0]
    /\ audio = [sampling_frequency |-> 0, channels |-> 0, bits_per_sample |-> 0]

\* assemble_file is called with a configuration of 0..MaxSlides slides.
DriverInit ==
    /\ \E n \in 0..MaxSlides :
          /\ slides \in SlideLists(n)
          /\ fs \in FileLists(n)
    /\ NoShow
    /\ big_endian \in BOOLEAN
    /\ built = FALSE
    /\ NewEncoder
    /\ NoDriver("start")

\* assemble_file returns to main_with_stdio, which prints and exits.
Return(res, len) ==
    /\ pc' = "returned"
    /\ outcome' = Outcome(res, len)
    /\ \E stdout_ok \in BOOLEAN : exited' = main_exit(res, len, stdout_ok)

\* A faulty variant: the destination is created before the list is looked at.
ReturnEmptyCreated ==
    /\ Return(Domain("EmptySequence"), 0)
    /\ created' = TRUE
    /\ UNCHANGED <<video, audio, built>>

\* config.slides.first() is None: nothing else happens.
ReturnEmpty ==
    /\ Return(Domain("EmptySequence"), 0)
    /\ UNCHANGED <<video, audio, built, created>>

\* basic_show_data fails on the first slide.
ReturnNoShow ==
    /\ Return(basic_show_data(fs[1]), 0)
    /\ UNCHANGED <<video, audio, built, created>>

\* OpenOptions::new().create_new(true).write(true).open(..)? fails.
ReturnNoTarget ==
    /\ Return(Fatal("target_open"), 0)
    /\ UNCHANGED <<video, audio, built, created>>

\* The destination is created, then PagedVec::new and Encoder::new.
Construct ==
    /\ created' = TRUE
    /\ built' = TRUE
    /\ video' = show_video(fs[1])
    /\ audio' = show_audio(fs[1])
    /\ pc' = "loop"
    /\ UNCHANGED <<outcome, exited>>

\* assemble_file up to the loop; target_free: the destination does not exist yet.
DriverStart ==
    /\ pc = "start"
    /\ \E target_free \in BOOLEAN :
          IF slides = <<>> THEN ReturnEmpty
          ELSE IF basic_show_data(fs[1]) # Ok THEN ReturnNoShow
          ELSE IF ~target_free THEN ReturnNoTarget
          ELSE Construct
    /\ UNCHANGED <<slides, fs, big_endian, progress, passed_time, vec, writer,
                   emitted, appended, consumed, result, successes, failures,
                   touched, file, length>>

\* file.write_all(&*page)? fails after the first `wrote` bytes.
WriteFails(page, wrote) ==
    /\ file' = file \o SubSeq(page, 1, wrote)
    /\ Return(Fatal("target_write"), 0)
    /\ UNCHANGED <<length, consumed>>

\* One turn of `while !encoder.done()`: step, write ready(), consume.
DriverTurn ==
    /\ pc = "loop"
    /\ ~done(Enc)
    /\ \E r \in {step(Enc)}, written \in BOOLEAN :
       LET page == ready(r.e)
           consumed_len == Len(page)
       IN  /\ result' = r.res
           /\ successes' = IF r.res = Ok THEN successes + 1 ELSE successes
           /\ failures' = IF r.res = Ok THEN failures ELSE failures + 1
           /\ touched' = FALSE
           /\ IF r.res # Ok
              THEN /\ SetEncoder(r.e)
                   /\ Return(r.res, 0)
                   /\ UNCHANGED <<file, length, consumed>>
              ELSE IF ~written
              THEN /\ SetEncoder(r.e)
                   /\ WriteFails(page, Len(page) \div 2)
              ELSE /\ file' = file \o page
                   /\ length' = length + consumed_len
                   /\ SetEncoder(consume(r.e, consumed_len))
                   /\ consumed' = consumed \o SubSeq(page, 1, consumed_len)
                   /\ UNCHANGED <<pc, outcome, exited>>
    /\ UNCHANGED <<slides, fs, video, audio, big_endian, built, created>>

\* After the loop: tail() is written, the file flushed, the length returned.
DriverTail ==
    /\ pc = "loop"
    /\ done(Enc)
    /\ \E written \in BOOLEAN, flushed \in BOOLEAN :
          IF ~written
          THEN WriteFails(tail(Enc), Len(tail(Enc)) \div 2)
          ELSE /\ file' = file \o tail(Enc)
               /\ length' = length + Len(tail(Enc))
               /\ IF flushed THEN Return(Ok, length')
                             ELSE Return(Fatal("target_flush"), 0)
               /\ UNCHANGED consumed
    /\ UNCHANGED <<slides, fs, video, audio, big_endian, progress, passed_time, vec,
                   writer, emitted, appended, result, successes, failures, touched,
                   built, created>>

DriverNext == DriverStart \/ DriverTurn \/ DriverTail

DriverSpec == DriverInit /\ [][DriverNext]_vars

(***************************************************************************)
(* The process: main.rs main and main_with_stdio around assemble_file.     *)
(***************************************************************************)
\* The process starts with a configuration on stdin: slides and fs are what
\* it holds if it parses.
MainInit ==
    /\ \E n \in 0..MaxSlides :
          /\ slides \in SlideLists(n)
          /\ fs \in FileLists(n)
    /\ NoShow
    /\ big_endian \in BOOLEAN
    /\ built = FALSE
    /\ NewEncoder
    /\ NoDriver("main")

\* serde_json::from_reader: the configuration parses, or the error is printed
\* and the process exits with 1.
MainParse ==
    /\ pc = "main"
    /\ \E parsed \in BOOLEAN, stdout_ok \in BOOLEAN :
          IF parsed
          THEN /\ pc' = "start"
               /\ UNCHANGED exited
          ELSE /\ pc' = "exited"
               /\ exited' = main_exit(Domain("Config"), 0, stdout_ok)
    /\ UNCHANGED <<slides, fs, video, audio, big_endian, progress, passed_time, vec,
                   writer, emitted, appended, consumed, result, successes, failures,
                   touched, built, created, file, length, outcome>>

MainNext == MainParse \/ DriverStart \/ DriverTurn \/ DriverTail

MainSpec == MainInit /\ [][MainNext]_vars

(***************************************************************************)
(* Properties of the encoder, under Spec.                                  *)
(***************************************************************************)

\* The transition is one call of step().
IsStep == successes' + failures' = successes + failures + 1

\* The slide the cursor is before.
Current == progress.frame + 1

ProgressMoves ==
    \/ progress' = progress
    \/ /\ progress = Initial
       /\ progress' = BeforeFrame(0)
    \/ /\ progress.kind = "BeforeFrame"
       /\ progress.frame + 1 < Len(slides)
       /\ progress' = BeforeFrame(progress.frame + 1)
    \/ /\ progress.kind = "BeforeFrame"
       /\ progress.frame + 1 = Len(slides)
       /\ progress' = Done

\* C1: the Progress cursor only takes the transitions Initial -> BeforeFrame(0),
\* BeforeFrame(i) -> BeforeFrame(i+1) for i+1 < N and BeforeFrame(N-1) -> Done;
\* it moves only in a step() that succeeds, and once Done nothing changes it.
C1_ProgressTransitions ==
    [][/\ ProgressMoves
       /\ progress' # progress => successes' = successes + 1
       /\ progress = Done => progress' = Done]_vars

\* Done was reached over two slides, and step() and consume() were called after it.
C1_Witness ==
    /\ progress = Done
    /\ Len(slides) >= 2
    /\ successes > Len(slides) + 1
    /\ consumed = appended

\* C2: done() is false until N + 1 calls of step() have succeeded and true from
\* the (N+1)-th on, and done() is true exactly when Progress is Done.
C2_DoneAfterAllSteps ==
    /\ done(Enc) <=> successes >= Len(slides) + 1
    /\ done(Enc) <=> progress = Done

\* Two slides that decode: done() after exactly three steps, none of them failed.
C2_Witness ==
    /\ done(Enc)
    /\ Len(slides) = 2
    /\ successes = 3
    /\ failures = 0

\* The image of the current slide decodes to a size other than the configured one,
\* and its audio is read without error.
WrongDimensions ==
    /\ progress.kind = "BeforeFrame"
    /\ fs[Current].image.status = "ok"
    /\ <<fs[Current].image.width, fs[Current].image.height>>
           # <<video.width, video.height>>
    /\ fs[Current].audio.status = "ok"
    /\ pcm_chunk_panic(fs[Current].audio) = Ok

\* C3: a step() that returns a domain error leaves Progress and passed_time as
\* they were; a slide of the wrong image size gives MismatchingDimensions; and a
\* step() repeated after a domain error with the files unchanged returns the same
\* error, again without moving Progress.
C3_DomainErrorKeepsCursor ==
    [][IsStep =>
         /\ result'.chan = "domain" =>
               /\ progress.kind = "BeforeFrame"
               /\ progress' = progress
               /\ passed_time' = passed_time
         /\ WrongDimensions => result' = Domain("MismatchingDimensions")
         /\ (result.chan = "domain" /\ ~touched) =>
               /\ result' = result
               /\ progress' = progress]_vars

\* MismatchingDimensions on the second slide, returned twice in a row.
C3_Witness ==
    /\ result = Domain("MismatchingDimensions")
    /\ progress = BeforeFrame(1)
    /\ passed_time > 0
    /\ failures >= 2
    /\ ~touched

\* Where the Segment starts in the log of written elements (past its end, if
\* no Segment was started).
SegmentStart ==
    IF \E i \in 1..Len(emitted) : emitted[i] = MasterStart("Segment")
    THEN CHOOSE i \in 1..Len(emitted) : emitted[i] = MasterStart("Segment")
    ELSE Len(emitted) + 1

\* The top-level elements in the order written: what is written outside every
\* master element, and what is written directly inside the Segment.
Outline ==
    LET at == SegmentStart
        top == SelectSeq([i \in 1..Len(emitted) |-> i],
                         LAMBDA i : \/ emitted[i].depth = 0
                                    \/ emitted[i].depth = 1 /\ i > at)
    IN  [k \in 1..Len(top) |-> <<emitted[top[k]].tag, emitted[top[k]].kind>>]

OutlineHead ==
    << <<"Ebml", "start">>, <<"Ebml", "end">>, <<"Segment", "start">>,
       <<"Info", "start">>, <<"Info", "end">>,
       <<"Tracks", "start">>, <<"Tracks", "end">> >>

OutlineEnd ==
    << <<"Cues", "start">>, <<"Cues", "end">>, <<"Segment", "end">> >>

\* o is the head, then Clusters only, and the end if and only if closed.
WellOrdered(o, closed) ==
    LET last == IF closed THEN Len(o) - Len(OutlineEnd) ELSE Len(o)
    IN  /\ last >= Len(OutlineHead)
        /\ SubSeq(o, 1, Len(OutlineHead)) = OutlineHead
        /\ (last - Len(OutlineHead)) % 2 = 0
        /\ \A i \in (Len(OutlineHead) + 1)..last :
              o[i] = <<"Cluster",
                       IF (i - Len(OutlineHead)) % 2 = 1 THEN "start" ELSE "end">>
        /\ closed => SubSeq(o, last + 1, Len(o)) = OutlineEnd

\* The last three elements written are an empty Cues and the end of the Segment.
ClosedByEmptyCues ==
    /\ Len(emitted) >= 3
    /\ SubSeq(emitted, Len(emitted) - 2, Len(emitted)) =
          << [MasterStart("Cues") EXCEPT !.depth = 1],
             [MasterEnd("Cues") EXCEPT !.depth = 1],
             MasterEnd("Segment") >>

\* C7: the top-level elements are the EBML header, the start of the Segment,
\* Info, Tracks, then Clusters only; one empty Cues and the end of the Segment
\* are there exactly when Progress is Done, and are the last elements written.
C7_TopLevelOrder ==
    /\ progress = Initial => emitted = <<>>
    /\ progress # Initial => WellOrdered(Outline, progress = Done)
    /\ progress = Done => ClosedByEmptyCues

\* A finished run over two slides, with a further step() after Done.
C7_Witness ==
    /\ progress = Done
    /\ Len(slides) >= 2
    /\ failures = 0
    /\ successes > Len(slides) + 1
    /\ Len(Outline) > Len(OutlineHead) + Len(OutlineEnd) + 6

\* The TrackEntry elements written, and the TrackType values in order.
TrackEntries == SelectSeq(emitted, LAMBDA el : el = [MasterStart("TrackEntry") EXCEPT !.depth = 2])

TrackTypes ==
    LET types == SelectSeq(emitted, LAMBDA el : el.tag = "TrackType")
    IN  [k \in 1..Len(types) |-> types[k].num]

\* Where Tracks starts and ends in the log of written elements.
TracksSpan ==
    {i \in 1..Len(emitted) : emitted[i].tag = "Tracks"}

\* C8: Tracks, written by the Initial step, holds two TrackEntry elements (audio
\* is always configured), the first of TrackType 1 (video) and the second of
\* TrackType 2 (audio), so that there is exactly one video entry.
C8_TwoTrackEntries ==
    /\ progress = Initial => TrackTypes = <<>>
    /\ progress # Initial =>
          /\ Len(TrackEntries) = 2
          /\ TrackTypes = <<1, 2>>
          /\ Cardinality(TracksSpan) = 2
          /\ \A i \in 1..Len(emitted) :
                emitted[i].tag \in {"TrackEntry", "TrackType"} =>
                   \A j \in TracksSpan :
                      (emitted[j].kind = "start") <=> (j < i)

\* The Initial step has written Tracks for a show with 16-bit audio.
C8_Witness ==
    /\ progress = BeforeFrame(0)
    /\ successes = 1
    /\ audio.bits_per_sample = 16
    /\ Len(TrackEntries) = 2

\* The Duration elements written.
Durations_written == SelectSeq(emitted, LAMBDA el : el.tag = "Duration")

AudioFatal == fs[Current].audio.status \in {"missing", "io"}
AudioDomain == fs[Current].audio.status = "other"
AudioPanics == fs[Current].audio.status = "ok" /\ pcm_chunk_panic(fs[Current].audio) # Ok
ImageFatal == fs[Current].image.status \in {"missing", "io"}
ImageDomain ==
    \/ fs[Current].image.status = "corrupt"
    \/ /\ fs[Current].image.status = "ok"
       /\ <<fs[Current].image.width, fs[Current].image.height>>
             # <<video.width, video.height>>

\* C10: a step() before a slide fails on the fatal channel when a file cannot be
\* opened or read (I/O), on the domain channel for every other decode error and
\* for a dimension mismatch, and succeeds only when nothing failed.
C10_ErrorChannels ==
    [][(IsStep /\ progress.kind = "BeforeFrame" /\ ~AudioPanics) =>
         /\ AudioFatal => result'.chan = "fatal"
         /\ AudioDomain => result' = Domain("Wav")
         /\ ~(AudioFatal \/ AudioDomain) =>
               /\ ImageFatal => result'.chan = "fatal"
               /\ ImageDomain => result'.chan = "domain"
         /\ result' = Ok =>
               ~(AudioFatal \/ AudioDomain \/ ImageFatal \/ ImageDomain)
         /\ result'.chan \in {"ok", "domain", "fatal"}]_vars

\* Each kind of failure was returned: here the wav error of kind Other.
C10_Witness ==
    /\ result = Domain("Wav")
    /\ progress.kind = "BeforeFrame"
    /\ failures >= 1

(***************************************************************************)
(* Properties of the driver, under DriverSpec.                             *)
(***************************************************************************)

\* C4: what the driver has written to the destination is what the writer has
\* appended to the buffer, in order: between turns the file and the bytes still
\* ready make up the appended bytes exactly, and a success reports as length
\* the number of bytes in the file, which then holds every appended byte.
C4_FileIsAppendedBytes ==
    /\ Len(file) <= Len(appended)
    /\ file = SubSeq(appended, 1, Len(file))
    /\ pc = "loop" =>
          /\ file \o ready(Enc) = appended
          /\ length = Len(file)
    /\ (pc = "returned" /\ outcome.chan = "ok") =>
          /\ file = appended
          /\ outcome.length = Len(file)

\* The driver returned success for two slides.
C4_Witness ==
    /\ pc = "returned"
    /\ outcome.chan = "ok"
    /\ Len(slides) = 2
    /\ outcome.length > 0
    /\ file = appended

\* C6: for an empty slide list the driver returns EmptySequence, and it has
\* created no destination file, constructed no Encoder and called no step().
C6_EmptySequence ==
    (slides = <<>> /\ pc # "start") =>
       /\ pc = "returned"
       /\ outcome = Outcome(Domain("EmptySequence"), 0)
       /\ ~created
       /\ ~built
       /\ successes + failures = 0
       /\ file = <<>>
       /\ appended = <<>>

\* The driver returned for an empty list.
C6_Witness ==
    /\ slides = <<>>
    /\ pc = "returned"
    /\ outcome.kind = "EmptySequence"

(***************************************************************************)
(* Properties of the buffer, under BufferSpec.                             *)
(***************************************************************************)

\* C5: consume(0) leaves the buffer as it is, and for every k in 0..L consume(k)
\* followed by ready() shows L - k bytes, the bytes b[k..L) in their order.
C5_ConsumeDropsPrefix ==
    /\ consume(Enc, 0) = Enc
    /\ \A k \in 0..Len(ready(Enc)) :
          ready(consume(Enc, k)) = [j \in 1..(Len(ready(Enc)) - k) |-> ready(Enc)[k + j]]

\* Bytes are ready after an earlier consume took some away.
C5_Witness ==
    /\ consumed # <<>>
    /\ Len(ready(Enc)) > 1

(***************************************************************************)
(* Properties of the encoder, under Spec: audio, time and clusters.        *)
(***************************************************************************)

\* The audio of the current slide decodes to 24-bit samples.
TwentyFourBit ==
    /\ progress.kind = "BeforeFrame"
    /\ fs[Current].audio.status = "ok"
    /\ fs[Current].audio.depth = 24

\* C11 as stated: a step() before a slide with 24-bit audio returns a domain
\* error as a value, and writes no element for that slide.
C11_Original ==
    [][(IsStep /\ TwentyFourBit) =>
          /\ result'.chan = "domain"
          /\ emitted' = emitted]_vars

\* The bytes the writer has produced and not yet handed to the buffer.
Held == Len(writer.working_buffer)

\* C12 as stated: a successful step() before a slide leaves every Cluster byte
\* it produced visible through ready(), so that the writer holds no more bytes
\* after the step than before it, however many slides are encoded.
C12_Original ==
    [][(IsStep /\ progress.kind = "BeforeFrame" /\ result' = Ok) =>
          Len(writer'.working_buffer) <= Held]_vars

IsPrefix(a, b) == Len(a) <= Len(b) /\ SubSeq(b, 1, Len(a)) = a

\* C13: a write through the Shared handle puts its bytes after the bytes in the
\* buffer and changes none of them: in every transition that consumes nothing
\* the old buffer is a prefix of the new one, the bytes consumed so far followed
\* by the buffer are the bytes written so far, and no byte written or consumed
\* changes afterwards.
C13_AppendOnly ==
    [][/\ consumed' = consumed => IsPrefix(vec, vec')
       /\ consumed' \o vec' = appended'
       /\ IsPrefix(appended, appended')
       /\ IsPrefix(consumed, consumed')]_vars

\* The writer wrote the rest of the file after the header had been consumed.
C13_Witness ==
    /\ progress = Done
    /\ consumed # <<>>
    /\ vec # <<>>
    /\ Len(appended) > Len(consumed) + Len(vec) - 1

(***************************************************************************)
(* Properties of the process, under MainSpec.                              *)
(***************************************************************************)

\* The configuration did not parse.
Unparsed == pc = "exited"

\* The exit code and the printed result, set against what assemble_file returned.
ExitMatchesOutcome ==
    /\ exited.code \in {0, 1, 2}
    /\ exited.code = 0 <=> exited.printed = "ok"
    /\ exited.code = 1 <=> exited.printed = "error"
    /\ exited.code = 0 =>
          /\ outcome.chan = "ok"
          /\ exited.length = outcome.length
          /\ exited.length = Len(file)
    /\ exited.code = 1 => (Unparsed \/ outcome.chan = "domain")
    /\ outcome.chan = "fatal" => exited.code = 2
    /\ (Unparsed \/ outcome.chan = "domain") => exited.code \in {1, 2}
    /\ outcome.chan = "ok" => exited.code \in {0, 2}

C15_DoneStepIsNoOp ==
    [][(IsStep /\ progress = Done) =>
          /\ result' = Ok
          /\ progress' = progress
          /\ passed_time' = passed_time
          /\ vec' = vec
          /\ writer' = writer
          /\ emitted' = emitted
          /\ appended' = appended]_vars

\* A step() was taken after Done and after the input files were removed.
C15_Witness ==
    /\ progress = Done
    /\ successes > Len(slides) + 1
    /\ \A i \in 1..Len(fs) : fs[i] = MissingFiles
    /\ ~touched
    /\ result = Ok

\* C16 as stated: a successful step() before slide i advances passed_time by
\* exactly the seconds of slide i.
C16_Original ==
    [][(IsStep /\ progress.kind = "BeforeFrame" /\ result' = Ok) =>
          passed_time' = passed_time + slides[Current].seconds]_vars

\* What one transition adds to the log of written elements.
Written == SubSeq(emitted', Len(emitted) + 1, Len(emitted'))

\* The video blocks of a log, in order: each BlockDuration with the Block in
\* front of it and the Timecode of their Cluster.
VideoBlocks(log) ==
    LET at == SelectSeq([i \in 1..Len(log) |-> i],
                        LAMBDA i : log[i].tag = "BlockDuration")
    IN  [k \in 1..Len(at) |->
            [timecode |-> log[at[k] - 3].num,
             duration |-> log[at[k]].num,
             data |-> log[at[k] - 1].data]]

\* The sub-blocks of the slide's window: the video blocks of the step, without
\* the repeated frame the last slide's step adds.
SubBlocks ==
    LET all == VideoBlocks(Written)
    IN  IF progress' = Done THEN SubSeq(all, 1, Len(all) - 1) ELSE all

RECURSIVE SumDurations(_)
SumDurations(blocks) ==
    IF blocks = <<>> THEN 0
    ELSE blocks[1].duration + SumDurations(Tail(blocks))

\* The sub-blocks b follow one another and carry one frame.
Consecutive(b) ==
    /\ Len(b) >= 1
    /\ \A k \in 1..Len(b) :
          /\ b[k].duration <= TicksPerSecond
          /\ b[k].data = b[1].data
          /\ k > 1 => b[k].timecode = b[k - 1].timecode + b[k - 1].duration

\* C17 as stated: the sub-blocks of a slide follow one another, carry the same
\* frame, last at most a second each, and their BlockDurations sum to the
\* slide's duration.
C17_Original ==
    [][(IsStep /\ progress.kind = "BeforeFrame" /\ result' = Ok) =>
          /\ Consecutive(SubBlocks)
          /\ SumDurations(SubBlocks) = time_as_timecode(slides[Current].seconds)]_vars

\* The zero-duration repeats among the video blocks b of one step: the blocks
\* with BlockDuration 0 that follow another video block of the step.
Repeats(b) == {k \in 2..Len(b) : b[k].duration = 0}

\* The last elements a log ends with are those of els, up to their depth.
EndsWith(log, els) ==
    /\ Len(log) >= Len(els)
    /\ \A k \in 1..Len(els) :
          [log[Len(log) - Len(els) + k] EXCEPT !.depth = 0] = els[k]

Blocks(log) ==
    LET at == SelectSeq([i \in 1..Len(log) |-> i], LAMBDA i : log[i].tag = "Block")
    IN  [k \in 1..Len(at) |->
            [track |-> log[at[k]].data[1],
             data |-> SubSeq(log[at[k]].data, 5, Len(log[at[k]].data))]]

OfTrack(b, num) == SelectSeq(b, LAMBDA x : x.track = TrackByte(num))

\* No block of the audio track comes after a block of the video track.
AudioThenVideo(b) ==
    \A j, k \in 1..Len(b) :
        (j < k /\ b[j].track = TrackByte(TRACK_VIDEO)) => b[k].track = TrackByte(TRACK_VIDEO)

\* The bytes of all samples of a decoded wav file.
SampleBytes(wav) ==
    Flatten([j \in 1..Len(wav.samples) |-> sample_bytes(wav.depth, wav.samples[j])])

\* The cursor does not return to an earlier slide.
NeverBack ==
    /\ progress = Done => progress' = Done
    /\ progress.kind = "BeforeFrame" =>
          \/ progress' = Done
          \/ progress'.kind = "BeforeFrame" /\ progress'.frame >= progress.frame

\* C19: Clusters are only appended, by a step() with the cursor before a slide,
\* and the cursor never goes back; the Clusters one step appends are all made
\* of that slide's files, the audio ones in front of the video ones; a step
\* that appends a video Cluster leaves the slide, so that none of the slide's
\* audio Clusters can follow.
C19_ClusterOrder ==
    [][/\ IsPrefix(emitted, emitted')
       /\ NeverBack
       /\ Blocks(Written) # <<>> => IsStep /\ progress.kind = "BeforeFrame"
       /\ (IsStep /\ progress.kind = "BeforeFrame") =>
             LET b == Blocks(Written)
                 a == OfTrack(b, TRACK_AUDIO)
                 v == OfTrack(b, TRACK_VIDEO)
             IN  /\ Len(a) + Len(v) = Len(b)
                 /\ AudioThenVideo(b)
                 /\ \A k \in 1..Len(v) : v[k].data = rgba8_bytes(fs[Current].image)
                 /\ b # <<>> =>
                       Flatten([k \in 1..Len(a) |-> a[k].data]) = SampleBytes(fs[Current].audio)
                 /\ v # <<>> => progress' # progress /\ result' = Ok
                 /\ result' = Ok => v # <<>>]_vars

\* A finished run of two slides, one of them after a step() that failed on the
\* slide's image with the slide's audio Clusters already written.
C19_Witness ==
    /\ progress = Done
    /\ Len(slides) = 2
    /\ failures >= 1
    /\ Len(OfTrack(Blocks(emitted), TRACK_AUDIO)) > 2 * Len(pcm_chunk(GoodAudio))

\* The audio chunks of a log, in order: the Timecode of each Cluster with a
\* Block of the audio track, and the number of samples of the Block.
AudioChunks(log, depth) ==
    LET at == SelectSeq([i \in 1..Len(log) |-> i],
                        LAMBDA i : /\ log[i].tag = "Block"
                                   /\ log[i].data[1] = TrackByte(TRACK_AUDIO))
    IN  [k \in 1..Len(at) |->
            [timecode |-> log[at[k] - 2].num,
             samples |-> (Len(log[at[k]].data) - 4) \div (depth \div 8)]]

RECURSIVE StartIndex(_, _)
\* The index of the first sample of the k-th chunk.
StartIndex(c, k) == IF k = 1 THEN 0 ELSE StartIndex(c, k - 1) + c[k - 1].samples

\* C20 (as stated): the Timecode of the Cluster of the audio chunk that starts
\* at sample n is the tick of passed_time at the start of the step plus
\* round(n / sample_rate * 1e9 / TimecodeScale).
C20_Original ==
    [][(IsStep /\ progress.kind = "BeforeFrame") =>
          LET c == AudioChunks(Written, fs[Current].audio.depth)
          IN  \A k \in 1..Len(c) :
                 c[k].timecode =
                     time_as_timecode(passed_time)
                     + Round(StartIndex(c, k) * TicksPerSecond,
                             audio.sampling_frequency)]_vars

\* The bytes of the decoded samples of a wav file, in the host's order.
DecodedBytes(wav) ==
    Flatten([j \in 1..Len(wav.samples) |-> to_ne_bytes(wav.samples[j], wav.depth \div 8)])

\* C21: at a sampling frequency r of 33 or more, the chunker cuts a buffer of
\* M samples into ceil(M / c) chunks, c = floor(r / 33); each chunk but the last
\* has c samples and the last at most c; the payloads together are the decoded
\* bytes in order; chunk k (from 0) starts at sample k * c; and the offsets of
\* the chunks increase strictly.
C21_Chunks ==
    (result # NoResult /\ audio.sampling_frequency >= 33) =>
        LET wav == fs[1].audio
            c == audio.sampling_frequency \div 33
            M == Len(wav.samples)
            ch == AudioChunks(emitted, wav.depth)
            b == OfTrack(Blocks(emitted), TRACK_AUDIO)
        IN  /\ result = Ok
            /\ Len(ch) = (M + c - 1) \div c
            /\ Len(b) = Len(ch)
            /\ \A k \in 1..Len(ch) :
                  /\ k < Len(ch) => ch[k].samples = c
                  /\ ch[k].samples \in 1..c
                  /\ StartIndex(ch, k) = (k - 1) * c
                  /\ k > 1 => ch[k - 1].timecode < ch[k].timecode
            /\ Flatten([k \in 1..Len(b) |-> b[k].data]) = DecodedBytes(wav)

\* A buffer of five 16-bit samples cut into chunks of two, two and one.
C21_Witness ==
    /\ result = Ok
    /\ audio.sampling_frequency = 66
    /\ fs[1].audio.depth = 16
    /\ Len(fs[1].audio.samples) = 5
    /\ Len(AudioChunks(emitted, 16)) = 3

\* The Blocks of a log whose first byte is t.
BlocksOf(log, t) ==
    SelectSeq(log, LAMBDA el : el.tag = "Block" /\ el.data # <<>> /\ el.data[1] = t)

\* The bytes of the Blocks after their first four.
Payloads(bs) == [k \in 1..Len(bs) |-> SubSeq(bs[k].data, 5, Len(bs[k].data))]

\* C22: every Block a step() writes is the byte 129 (video, track 1) or 130
\* (audio, track 2), three zero bytes for the relative timecode and the flags,
\* and the data as it was handed in: the frame's RGBA bytes, or the samples'
\* bytes chunk after chunk; no step() ends in the guard on the track number.
C22_BlockLayout ==
    [][IsStep =>
          LET all == SelectSeq(Written, LAMBDA el : el.tag = "Block")
              v == BlocksOf(Written, 129)
              a == BlocksOf(Written, 130)
          IN  /\ result'.kind # "track_number"
              /\ Len(v) + Len(a) = Len(all)
              /\ \A k \in 1..Len(all) :
                    /\ Len(all[k].data) > 4
                    /\ SubSeq(all[k].data, 2, 4) = <<0, 0, 0>>
              /\ \A k \in 1..Len(v) : Payloads(v)[k] = rgba8_bytes(fs[Current].image)
              /\ a # <<>> => Flatten(Payloads(a)) = DecodedBytes(fs[Current].audio)]_vars

\* A finished run: its output has Blocks of both tracks.
C22_Witness ==
    /\ progress = Done
    /\ result = Ok
    /\ BlocksOf(emitted, 129) # <<>>
    /\ BlocksOf(emitted, 130) # <<>>

\* The bytes of the samples of a wav file, each sample in little-endian order.
LittleEndianBytes(wav) ==
    Flatten([j \in 1..Len(wav.samples) |-> Reverse(BE(wav.samples[j], wav.depth \div 8))])

\* The CodecId elements written for the audio track: those of the PCM formats.
AudioCodecIds(log) ==
    SelectSeq(log, LAMBDA el : el.tag = "CodecId" /\ el.data # CodecUncompressed)

\* The audio track is declared with the host's byte order.
HostOrderCodec ==
    \A k \in 1..Len(AudioCodecIds(emitted')) :
        AudioCodecIds(emitted')[k].data = IF big_endian THEN CodecPcmBig ELSE CodecPcmLit

\* C23 (as stated): on hosts of both byte orders the bytes of 32-bit float
\* samples in the Blocks are little-endian; integer samples are in the host's
\* order, which the CodecId of the audio track names.
C23_Original ==
    [][IsStep =>
          /\ HostOrderCodec
          /\ progress.kind = "BeforeFrame" =>
                LET a == BlocksOf(Written, 130)
                    wav == fs[Current].audio
                IN  a # <<>> =>
                       Flatten(Payloads(a)) =
                           IF wav.depth = 32 THEN LittleEndianBytes(wav)
                           ELSE DecodedBytes(wav)]_vars

\* C24: the driver builds an Encoder only over one slide or more, and the
\* cursor of that Encoder is always before a slide of the list, so that no
\* step() ends in an index out of bounds.
C24_CursorInBounds ==
    /\ built => slides # <<>>
    /\ slides = <<>> => progress = Initial /\ successes + failures = 0
    /\ (slides # <<>> /\ progress.kind = "BeforeFrame") =>
          progress.frame \in 0..(Len(slides) - 1)
    /\ result.kind # "index_out_of_bounds"

\* The driver's Encoder is before the last of two slides.
C24_Witness ==
    /\ built
    /\ Len(slides) = 2
    /\ progress = BeforeFrame(1)
    /\ successes = 2

\* The ids of the master elements the writer holds open, the outermost first.
OpenIds(w) == [k \in 1..Len(w.open_tags) |-> w.open_tags[k].id]

Mismatch == <<0>>

RECURSIVE Nesting(_, _, _)
\* The open master elements after the elements log[k..] on top of stack, or
\* Mismatch when an end element does not close the innermost open element.
Nesting(log, k, stack) ==
    IF k > Len(log) \/ stack = Mismatch THEN stack
    ELSE LET el == log[k]
             next == CASE el.kind = "start" -> Append(stack, TagId(el.tag))
                       [] el.kind = "end" ->
                             IF stack # <<>> /\ stack[Len(stack)] = TagId(el.tag)
                             THEN SubSeq(stack, 1, Len(stack) - 1)
                             ELSE Mismatch
                       [] OTHER -> stack
         IN  IF Len(next) >= 0 THEN Nesting(log, k + 1, next) ELSE next

\* C25: between calls nothing is open while the cursor is Initial or Done, and
\* the Segment alone is open while it is before a slide; every end element a
\* step() writes closes the innermost element open at that point, of the same
\* kind.
C25_MastersBalanced ==
    /\ [](OpenIds(writer) =
             IF progress.kind = "BeforeFrame" THEN <<TagId("Segment")>> ELSE <<>>)
    /\ [][IsStep => Nesting(Written, 1, OpenIds(writer)) = OpenIds(writer')]_vars

\* A step() failed on a slide's image after the slide's audio Clusters.
C25_Witness ==
    /\ result.chan = "domain"
    /\ progress.kind = "BeforeFrame"
    /\ emitted # <<>>
    /\ emitted[Len(emitted)] = [MasterEnd("Cluster") EXCEPT !.depth = 1]
    /\ OpenIds(writer) = <<408125543>>

\* The Encoder of the schedule that has consumed nothing so far.
NeverConsumed == [Enc EXCEPT !.vec = appended]

\* C26: whatever was consumed so far, a step() returns what it returns in the
\* schedule that never consumes, and the bytes consumed followed by the bytes
\* in the buffer are that schedule's buffer; a consume() moves bytes from the
\* buffer to the consumed ones and changes neither; so the bytes consumed in
\* order followed by tail() are the same in every schedule.
C26_ScheduleIndependent ==
    /\ [](consumed \o tail(Enc) = tail(NeverConsumed))
    /\ [][IF IsStep
          THEN \E r \in {step(NeverConsumed)} :
                  /\ r.res = result'
                  /\ r.e.progress = progress'
                  /\ r.e.vec = appended'
                  /\ r.e.vec = consumed' \o vec'
          ELSE /\ consumed' \o vec' = consumed \o vec
               /\ appended' = appended]_vars

\* The output is complete, and more than half of it was consumed before, in
\* more than one part.
C26_Witness ==
    /\ progress = Done
    /\ vec # <<>>
    /\ Len(consumed) > Len(vec)
    /\ Len(vec) # Len(appended) \div 2

\* C27 (as stated): a step() that returns a domain error hands nothing to the
\* element writer and leaves the bytes produced so far, those consumed and
\* those in the buffer, as they were, so that a retry writes no audio Cluster
\* of the slide a second time.
C27_Original ==
    [][(IsStep /\ result'.chan = "domain") =>
          /\ emitted' = emitted
          /\ writer' = writer
          /\ consumed' \o vec' = consumed \o vec]_vars

\* The Timecodes of the Clusters of a log, in order.
Timecodes(log) ==
    LET at == SelectSeq([i \in 1..Len(log) |-> i], LAMBDA i : log[i].tag = "Timecode")
    IN  [k \in 1..Len(at) |-> log[at[k]].num]

NonDecreasing(s) == \A k \in 2..Len(s) : s[k - 1] <= s[k]

\* No slide's audio lasts longer than the slide.
AudioWithinSlides ==
    \A i \in 1..Len(slides) :
        fs[i].audio.status = "ok" =>
            Len(fs[i].audio.samples) * UnitsPerSecond
                <= slides[i].seconds * audio.sampling_frequency

\* C28 (as stated): when no slide's audio is longer than the slide, the
\* Timecodes of the Clusters never decrease in the order of the output.
C28_Original == AudioWithinSlides => NonDecreasing(Timecodes(emitted))

\* C29 (as stated): when no slide's audio is longer than the slide, no Cluster
\* has a Timecode after the Duration declared in Info, the repeated last frame
\* included, and no video block ends after it.
C29_Original ==
    (AudioWithinSlides /\ progress # Initial) =>
        LET declared == Durations_written[1]
            v == VideoBlocks(emitted)
        IN  /\ \A k \in 1..Len(Timecodes(emitted)) :
                  Timecodes(emitted)[k] * declared.den <= declared.num
            /\ \A k \in 1..Len(v) :
                  (v[k].timecode + v[k].duration) * declared.den <= declared.num

\* C30: each turn of the driver's loop consumes exactly what ready() showed
\* and the driver wrote, so that the buffer is empty whenever the driver is
\* about to call step() or has left the loop; tail() is then empty, and the
\* write after the loop adds nothing to the destination or to the length.
C30_TailIsEmpty ==
    /\ [](pc = "loop" => /\ vec = <<>>
                         /\ tail(Enc) = <<>>
                         /\ consumed = appended
                         /\ file = consumed
                         /\ length = Len(file))
    /\ [][(pc = "loop" /\ done(Enc)) => file' = file /\ length' = length]_vars
    /\ [][(pc = "loop" /\ ~done(Enc) /\ pc' = "loop") =>
             LET page == SubSeq(appended', Len(appended) + 1, Len(appended'))
             IN  /\ consumed' = consumed \o page
                 /\ file' = file \o page
                 /\ length' = length + Len(page)
                 /\ vec' = <<>>]_vars

\* The driver returned the length of a complete file.
C30_Witness ==
    /\ pc = "returned"
    /\ outcome.chan = "ok"
    /\ outcome.length = Len(file)
    /\ Len(slides) = 2
    /\ file # <<>>
    /\ file = consumed

====
